---- MODULE Spec2Model ----
(***************************************************************************)
(* Resume builder (src/app3.py, src/app.py): the section parser, the       *)
(* two-column PDF layout pass and the Streamlit script run.                *)
(*                                                                         *)
(* A Python str is a sequence of characters; a character is a one-element  *)
(* token ("A", ":", "\n"), a non-ASCII code point is named by its code     *)
(* ("u2022" is the bullet glyph U+2022).                                   *)
(***************************************************************************)
EXTENDS Integers, Sequences, FiniteSets, Bags, TLC

VARIABLES
    pc,               \* position of the running code
    resume_text,      \* the text handed to parse_resume_sections / create_pdf
    line_idx,         \* parse loop: index of the next line of split('\n')
    sections,         \* parse_resume_sections: the dict being built
    current_section,  \* parse_resume_sections: None or the open section's name
    current_content,  \* parse_resume_sections: the open section's lines
    sec_idx,          \* create_pdf: index in left_sections / right_sections
    content_idx,      \* create_pdf: 0 before the title, then index in the content
    current_y_left,   \* ResumePDF.current_y_left
    current_y_right,  \* ResumePDF.current_y_right
    page_no,          \* FPDF: the current page
    doc,              \* FPDF: the cells written so far
    app,              \* the script that runs: "app" (app.py) or "app3" (app3.py)
    runs,             \* script runs started so far
    submit_button,    \* st.form_submit_button(...) in this run
    send_email_button,\* st.button("Send Email") in this run
    job_description,  \* st.text_area: the job description
    receiver_email,   \* st.text_input("Receiver Email Address")
    gemini_calls,     \* outcomes of model.generate_content in this run
    pdf_data,         \* the script's pdf_data
    page,             \* the elements the run has put on the page
    transport_log     \* the sends that reached smtplib.SMTP(...)

parseVars == <<line_idx, sections, current_section, current_content>>
pdfVars == <<sec_idx, content_idx, current_y_left, current_y_right, page_no, doc>>
appVars == <<app, runs, submit_button, send_email_button, job_description,
             receiver_email, gemini_calls, pdf_data, page, transport_log>>
vars == <<pc, resume_text, parseVars, pdfVars, appVars>>

----------------------------------------------------------------------------
(* Python str primitives *)

NL == "\n"
COLON == ":"
BULLET == "u2022"
PIPE == "|"

UpperChars == {"A","B","C","D","E","F","G","H","I","J","K","L","M",
               "N","O","P","Q","R","S","T","U","V","W","X","Y","Z"}
LowerChars == {"a","b","c","d","e","f","g","h","i","j","k","l","m",
               "n","o","p","q","r","s","t","u","v","w","x","y","z"}
Whitespace == {" ", "\t", "\r", NL}

\* str.strip(): whitespace removed at both ends
RECURSIVE LStrip(_)
LStrip(s) ==
    IF s # <<>> /\ Head(s) \in Whitespace THEN LStrip(Tail(s)) ELSE s

RECURSIVE RStrip(_)
RStrip(s) ==
    IF s # <<>> /\ s[Len(s)] \in Whitespace
    THEN RStrip(SubSeq(s, 1, Len(s) - 1)) ELSE s

Strip(s) == RStrip(LStrip(s))

\* str.rstrip(':'): every trailing colon removed
RECURSIVE RStripColon(_)
RStripColon(s) ==
    IF s # <<>> /\ s[Len(s)] = COLON
    THEN RStripColon(SubSeq(s, 1, Len(s) - 1)) ELSE s

\* str.isupper(): at least one cased character and no lower-case one
IsUpper(s) ==
    /\ \E k \in DOMAIN s : s[k] \in UpperChars
    /\ \A k \in DOMAIN s : s[k] \notin LowerChars

EndsWith(s, c) == s # <<>> /\ s[Len(s)] = c

StartsWith(s, c) == s # <<>> /\ s[1] = c

\* str.split('\n'): the pieces between newlines; always at least one piece
RECURSIVE SplitFrom(_, _)
SplitFrom(s, cur) ==
    IF s = <<>> THEN <<cur>>
    ELSE IF Head(s) = NL THEN <<cur>> \o SplitFrom(Tail(s), <<>>)
    ELSE SplitFrom(Tail(s), Append(cur, Head(s)))

Split(s) == SplitFrom(s, <<>>)

\* '\n'.join(ls)
RECURSIVE Join(_)
Join(ls) ==
    IF ls = <<>> THEN <<>>
    ELSE IF Len(ls) = 1 THEN ls[1]
    ELSE ls[1] \o <<NL>> \o Join(Tail(ls))

----------------------------------------------------------------------------
(* Python dict: insertion-ordered, a sequence of [key, val] entries *)

HasKey(d, key) == \E k \in DOMAIN d : d[k].key = key

DictGet(d, key) == d[CHOOSE k \in DOMAIN d : d[k].key = key].val

\* an assignment that moves an existing key to the end of the dict
DictSetMoveToEnd(d, key, val) ==
    Append(SelectSeq(d, LAMBDA e : e.key # key), [key |-> key, val |-> val])

\* d[key] = val: an existing key keeps its place, a new key goes last
DictSet(d, key, val) ==
    IF HasKey(d, key)
    THEN [k \in DOMAIN d |->
            IF d[k].key = key THEN [key |-> key, val |-> val] ELSE d[k]]
    ELSE Append(d, [key |-> key, val |-> val])

----------------------------------------------------------------------------
(* parse_resume_sections *)

\* Optional[str]: <<>> is None, <<s>> is the string s
None == <<>>
Some(s) == <<s>>
\* a name of the script that this run has not assigned
Unbound == <<"unbound">>
Unassigned == [kind |-> "unbound", data |-> <<>>]
\* truth value of an Optional[str]: None and '' are false
Truthy(o) == o # None /\ o[1] # <<>>

\* the loop state with a default open section in place of None
ParseInitPreamble ==
    [sections |-> <<>>, current_section |-> Some(<<"P">>),
     current_content |-> <<>>]

ParseInit ==
    [sections |-> <<>>, current_section |-> None, current_content |-> <<>>]

\* the loop body with the content list carried over a header
ParseStepNoReset(st, raw) ==
    LET line == Strip(raw) IN
    IF line = <<>> THEN st
    ELSE IF IsUpper(line) \/ EndsWith(line, COLON)
    THEN [sections |->
              IF Truthy(st.current_section)
              THEN DictSet(st.sections, st.current_section[1],
                           st.current_content)
              ELSE st.sections,
          current_section |-> Some(RStripColon(line)),
          current_content |-> st.current_content]
    ELSE [st EXCEPT !.current_content = Append(@, line)]

\* one iteration of the loop over resume_text.split('\n')
ParseStep(st, raw) ==
    LET line == Strip(raw) IN
    IF line = <<>> THEN st
    ELSE IF IsUpper(line) \/ EndsWith(line, COLON)
    THEN [sections |->
              IF Truthy(st.current_section)
              THEN DictSet(st.sections, st.current_section[1],
                           st.current_content)
              ELSE st.sections,
          current_section |-> Some(RStripColon(line)),
          current_content |-> <<>>]
    ELSE [st EXCEPT !.current_content = Append(@, line)]

\* after the loop: the open section is stored, the dict returned
ParseFlush(st) ==
    IF Truthy(st.current_section)
    THEN DictSet(st.sections, st.current_section[1], st.current_content)
    ELSE st.sections

RECURSIVE ParseFold(_, _)
ParseFold(st, ls) ==
    IF ls = <<>> THEN st ELSE ParseFold(ParseStep(st, Head(ls)), Tail(ls))

parse_resume_sections(text) == ParseFlush(ParseFold(ParseInit, Split(text)))

----------------------------------------------------------------------------
(* Inputs of the parser specification *)

MaxLines == 4

ParseLines ==
    { <<>>,                    \* blank
      <<"A">>,                 \* upper-case header
      <<"A", ":">>,            \* the same name with a colon
      <<"b", ":">>,            \* lower-case header with a colon
      <<":">>,                 \* header with an empty name
      <<" ", "b", " ">>,       \* content with surrounding blanks
      <<"c">> }                \* content

LineSeqs(S, n) == UNION { [1..k -> S] : k \in 1..n }

ParseTexts == { Join(ls) : ls \in LineSeqs(ParseLines, MaxLines) }

ParseState ==
    [sections |-> sections, current_section |-> current_section,
     current_content |-> current_content]

\* no script run: the function is called on its own
NoScript ==
    /\ app = "app3"
    /\ runs = 0
    /\ submit_button = FALSE
    /\ send_email_button = FALSE
    /\ job_description = <<>>
    /\ receiver_email = <<>>
    /\ gemini_calls = <<>>
    /\ pdf_data = Unassigned
    /\ page = {}
    /\ transport_log = <<>>

InitParse ==
    /\ NoScript
    /\ pc = "parse"
    /\ resume_text \in ParseTexts
    /\ line_idx = 1
    /\ sections = ParseInit.sections
    /\ current_section = ParseInit.current_section
    /\ current_content = ParseInit.current_content
    /\ sec_idx = 0
    /\ content_idx = 0
    /\ current_y_left = 0
    /\ current_y_right = 0
    /\ page_no = 0
    /\ doc = <<>>

ParseLine ==
    /\ pc = "parse"
    /\ line_idx <= Len(Split(resume_text))
    /\ LET st == ParseStep(ParseState, Split(resume_text)[line_idx]) IN
        /\ sections' = st.sections
        /\ current_section' = st.current_section
        /\ current_content' = st.current_content
    /\ line_idx' = line_idx + 1
    /\ UNCHANGED <<pc, resume_text, pdfVars>>
    /\ UNCHANGED appVars

ParseReturn ==
    /\ pc = "parse"
    /\ line_idx > Len(Split(resume_text))
    /\ sections' = ParseFlush(ParseState)
    /\ pc' = "parsed"
    /\ UNCHANGED <<resume_text, line_idx, current_section, current_content,
                   pdfVars>>
    /\ UNCHANGED appVars

NextParse == ParseLine \/ ParseReturn

SpecParse == InitParse /\ [][NextParse]_vars

----------------------------------------------------------------------------
(* sanitize_text *)

\* the code points of the replacement table, and one outside it
NonAscii == {"u2013", "u2014", "u2018", "u2019", "u201C", "u201D",
             "u2022", "u2026", "u2028", "u2029", "u00E9"}

\* the replacement of one character: the table, then encode('ascii',
\* errors='replace'), which turns what is still non-ASCII into '?'
SanitizeChar(c) ==
    CASE c \in {"u2013", "u2014"} -> <<"-">>
      [] c \in {"u2018", "u2019"} -> <<"'">>
      [] c \in {"u201C", "u201D"} -> <<"\"">>
      [] c = "u2022" -> <<"*">>
      [] c = "u2026" -> <<".", ".", ".">>
      [] c = "u2028" -> <<NL>>
      [] c = "u2029" -> <<NL, NL>>
      [] c \in NonAscii -> <<"?">>
      [] OTHER -> <<c>>

RECURSIVE sanitize_text(_)
sanitize_text(text) ==
    IF text = <<>> THEN <<>>
    ELSE SanitizeChar(Head(text)) \o sanitize_text(Tail(text))

----------------------------------------------------------------------------
(* ResumePDF and the FPDF primitives it calls *)

margin == 10
left_column_width == 65

\* FPDF defaults: A4 (297 mm high), automatic page break 20 mm above the
\* bottom edge
PageBreakTrigger == 277

\* FPDF.cell(w, h, txt) followed by a line break: a cell that would end
\* below the trigger first starts a new page at the top margin
CellLn(pos, h) ==
    IF pos.y + h > PageBreakTrigger
    THEN [page |-> pos.page + 1, y |-> margin + h]
    ELSE [page |-> pos.page, y |-> pos.y + h]

\* where a cell of height h set at pos is drawn: on a new page when it
\* breaks the page
CellTop(pos, h) == [CellLn(pos, h) EXCEPT !.y = @ - h]

\* FPDF.ln(h)
Ln(pos, h) == [pos EXCEPT !.y = @ + h]

\* FPDF.multi_cell(w, 5, txt): one cell of height 5, with the page break
\* test of cell, per wrapped line; n is the number of wrapped lines
RECURSIVE MultiCellFrom(_, _, _)
MultiCellFrom(pg, y, n) ==
    IF n = 0 THEN [page |-> pg, y |-> y]
    ELSE IF y + 5 > PageBreakTrigger
    THEN MultiCellFrom(pg + 1, margin + 5, n - 1)
    ELSE MultiCellFrom(pg, y + 5, n - 1)

MultiCell(pos, n) == MultiCellFrom(pos.page, pos.y, n)

\* add_page, then add_name_section: where both cursors start
NameSectionEnd == Ln(CellLn(CellLn([page |-> 1, y |-> margin], 10), 5), 5)

\* add_section_title: cell of height 6, ln(2)
SectionTitleEnd(pos) == Ln(CellLn(pos, 6), 2)

ColumnX(column) ==
    IF column = "left" THEN margin ELSE margin + left_column_width + 10

\* pdf.current_y_left += 5 / pdf.current_y_right += 5
SectionGap(y) == y + 5

\* pdf.current_y_right = pdf.margin + 25
RightColumnReset == margin + 25

----------------------------------------------------------------------------
(* create_pdf *)

CONTACT_INFORMATION == <<"C", "O", "N", "T", "A", "C", "T", " ", "I", "N", "F", "O", "R", "M", "A", "T", "I", "O", "N">>
EDUCATION == <<"E", "D", "U", "C", "A", "T", "I", "O", "N">>
EXPERIENCE == <<"E", "X", "P", "E", "R", "I", "E", "N", "C", "E">>

\* the right list with a name of the left list repeated in it
right_sections_overlap ==
    << EXPERIENCE, <<"W", "O", "R", "K", " ", "E", "X", "P", "E", "R", "I", "E", "N", "C", "E">>, EDUCATION, <<"P", "R", "O", "J", "E", "C", "T", "S">>, <<"P", "R", "O", "F", "E", "S", "S", "I", "O", "N", "A", "L", " ", "E", "X", "P", "E", "R", "I", "E", "N", "C", "E">> >>

left_sections ==
    << EDUCATION, <<"S", "K", "I", "L", "L", "S">>, <<"T", "E", "C", "H", "N", "I", "C", "A", "L", " ", "S", "K", "I", "L", "L", "S">>, <<"C", "O", "U", "R", "S", "E", "W", "O", "R", "K">>, <<"A", "C", "H", "I", "E", "V", "E", "M", "E", "N", "T", "S">>, <<"L", "I", "N", "K", "S">> >>

right_sections ==
    << EXPERIENCE, <<"W", "O", "R", "K", " ", "E", "X", "P", "E", "R", "I", "E", "N", "C", "E">>, <<"P", "R", "O", "J", "E", "C", "T", "S">>, <<"P", "R", "O", "F", "E", "S", "S", "I", "O", "N", "A", "L", " ", "E", "X", "P", "E", "R", "I", "E", "N", "C", "E">> >>

ColumnSections(column) ==
    IF column = "left" THEN left_sections ELSE right_sections

\* str.split('|')
RECURSIVE SplitPipeFrom(_, _)
SplitPipeFrom(s, cur) ==
    IF s = <<>> THEN <<cur>>
    ELSE IF Head(s) = PIPE THEN <<cur>> \o SplitPipeFrom(Tail(s), <<>>)
    ELSE SplitPipeFrom(Tail(s), Append(cur, Head(s)))

\* the contact block read from the sections: contact_info[0] raises on an
\* empty list, the two-name unpacking raises unless split gives two pieces
ContactBlock(secs) ==
    LET contact_info ==
            IF HasKey(secs, CONTACT_INFORMATION)
            THEN DictGet(secs, CONTACT_INFORMATION)
            ELSE << <<"N", "a", "m", "e">>, <<"e", "m", "a", "i", "l", "@", "e", "x", "a", "m", "p", "l", "e", ".", "c", "o", "m", " ", PIPE, " ", "P", "h", "o", "n", "e">> >>
        contact == IF Len(contact_info) > 1 THEN contact_info[2] ELSE <<>>
        parts == SplitPipeFrom(contact, <<>>)
    IN  IF contact_info = <<>> THEN [ok |-> FALSE, error |-> "IndexError"]
        ELSE IF \E k \in DOMAIN contact : contact[k] = PIPE
        THEN IF Len(parts) = 2
             THEN [ok |-> TRUE, name |-> contact_info[1],
                   email |-> Strip(parts[1]), phone |-> Strip(parts[2])]
             ELSE [ok |-> FALSE, error |-> "ValueError"]
        ELSE [ok |-> TRUE, name |-> contact_info[1],
              email |-> Strip(contact), phone |-> <<>>]

\* the number of lines a long content line wraps to in a column
LongWrap == 50
WrapChoices == {1, LongWrap}

MaxPdfLines == 4

PdfLines ==
    { CONTACT_INFORMATION,
      EDUCATION,
      EXPERIENCE,
      <<"S", "U", "M", "M", "A", "R", "Y">>,                       \* a header in neither list
      <<BULLET, " ", "B", "u", "i", "l", "t", " ", "X">>,                       \* a bullet line
      <<"e", PIPE, "p">>,                      \* a plain line
      <<"e", PIPE, "p", PIPE, "q">> }                      \* a line with two '|'

PdfTexts == { Join(ls) : ls \in LineSeqs(PdfLines, MaxPdfLines) }

InitPdf ==
    /\ NoScript
    /\ pc = "create_pdf"
    /\ resume_text \in PdfTexts
    /\ line_idx = 1
    /\ sections = <<>>
    /\ current_section = None
    /\ current_content = <<>>
    /\ sec_idx = 0
    /\ content_idx = 0
    /\ current_y_left = 0
    /\ current_y_right = 0
    /\ page_no = 0
    /\ doc = <<>>

\* sanitize, parse, ResumePDF(), add_page, contact block, add_name_section
CreatePdfBegin ==
    /\ pc = "create_pdf"
    /\ sections' = parse_resume_sections(sanitize_text(resume_text))
    /\ LET c == ContactBlock(sections') IN
        \/ /\ c.ok
           /\ pc' = "left"
           /\ sec_idx' = 1
           /\ content_idx' = 0
           /\ page_no' = NameSectionEnd.page
           /\ current_y_left' = NameSectionEnd.y
           /\ current_y_right' = NameSectionEnd.y
           /\ doc' = << [kind |-> "name", column |-> "full", x |-> margin,
                         section |-> <<>>,
                         idx |-> 0, top |-> [page |-> 1, y |-> margin],
                         bottom |-> [page |-> 1, y |-> margin + 10],
                         text |-> c.name, is_bullet |-> FALSE],
                        [kind |-> "contact", column |-> "full", x |-> margin,
                         section |-> <<>>, idx |-> 0,
                         top |-> [page |-> 1, y |-> margin + 10],
                         bottom |-> [page |-> 1, y |-> margin + 15],
                         text |-> c.email \o <<" ", PIPE, " ">> \o c.phone,
                         is_bullet |-> FALSE] >>
        \/ /\ ~c.ok
           /\ pc' = "pdf_raised"
           /\ page_no' = 1
           /\ UNCHANGED <<sec_idx, content_idx, current_y_left,
                          current_y_right, doc>>
    /\ UNCHANGED <<resume_text, line_idx, current_section, current_content>>
    /\ UNCHANGED appVars

InColumnLoop(column) ==
    /\ pc = column
    /\ sec_idx <= Len(ColumnSections(column))

CurSection(column) == ColumnSections(column)[sec_idx]

CursorOf(column) ==
    IF column = "left" THEN current_y_left ELSE current_y_right

SetCursor(column, y) ==
    IF column = "left"
    THEN current_y_left' = y /\ UNCHANGED current_y_right
    ELSE current_y_right' = y /\ UNCHANGED current_y_left

\* `if section in sections` is false: the next name of the list
SkipSection(column) ==
    /\ InColumnLoop(column)
    /\ ~HasKey(sections, CurSection(column))
    /\ sec_idx' = sec_idx + 1
    /\ UNCHANGED <<pc, resume_text, parseVars, content_idx, current_y_left,
                   current_y_right, page_no, doc>>
    /\ UNCHANGED appVars

\* pdf.add_section_title(section, column)
AddSectionTitle(column) ==
    /\ InColumnLoop(column)
    /\ HasKey(sections, CurSection(column))
    /\ content_idx = 0
    /\ LET start == [page |-> page_no, y |-> CursorOf(column)]
           end == SectionTitleEnd(start) IN
        /\ page_no' = end.page
        /\ SetCursor(column, end.y)
        /\ doc' = Append(doc,
              [kind |-> "title", column |-> column, x |-> ColumnX(column),
               section |-> CurSection(column), idx |-> 0,
               top |-> CellTop(start, 6), bottom |-> end,
               text |-> CurSection(column), is_bullet |-> FALSE])
    /\ content_idx' = 1
    /\ UNCHANGED <<pc, resume_text, parseVars, sec_idx>>
    /\ UNCHANGED appVars

\* one iteration of `for content in sections[section]`:
\* pdf.add_content_left / pdf.add_content_right
AddContent(column) ==
    /\ InColumnLoop(column)
    /\ HasKey(sections, CurSection(column))
    /\ content_idx >= 1
    /\ content_idx <= Len(DictGet(sections, CurSection(column)))
    /\ \E n \in WrapChoices :
        LET content == DictGet(sections, CurSection(column))[content_idx]
            is_bullet == StartsWith(Strip(content), BULLET)
            arg == IF is_bullet THEN Strip(Tail(Strip(content))) ELSE content
            text == IF is_bullet THEN <<BULLET, " ">> \o arg ELSE arg
            start == [page |-> page_no, y |-> CursorOf(column)]
            end == MultiCell(start, n) IN
        /\ page_no' = end.page
        /\ SetCursor(column, end.y)
        /\ doc' = Append(doc,
              [kind |-> "content", column |-> column, x |-> ColumnX(column),
               section |-> CurSection(column), idx |-> content_idx,
               top |-> CellTop(start, 5), bottom |-> end,
               text |-> text, is_bullet |-> is_bullet])
    /\ content_idx' = content_idx + 1
    /\ UNCHANGED <<pc, resume_text, parseVars, sec_idx>>
    /\ UNCHANGED appVars

\* after the content loop: the gap, then the next name of the list
EndSection(column) ==
    /\ InColumnLoop(column)
    /\ HasKey(sections, CurSection(column))
    /\ content_idx > Len(DictGet(sections, CurSection(column)))
    /\ SetCursor(column, SectionGap(CursorOf(column)))
    /\ sec_idx' = sec_idx + 1
    /\ content_idx' = 0
    /\ UNCHANGED <<pc, resume_text, parseVars, page_no, doc>>
    /\ UNCHANGED appVars

\* the left loop is over: the right cursor is reset
ResetRightColumn ==
    /\ pc = "left"
    /\ sec_idx > Len(left_sections)
    /\ current_y_right' = RightColumnReset
    /\ pc' = "right"
    /\ sec_idx' = 1
    /\ content_idx' = 0
    /\ UNCHANGED <<resume_text, parseVars, current_y_left, page_no, doc>>
    /\ UNCHANGED appVars

\* the right loop is over: pdf.output
PdfOutput ==
    /\ pc = "right"
    /\ sec_idx > Len(right_sections)
    /\ pc' = "pdf_done"
    /\ UNCHANGED <<resume_text, parseVars, pdfVars>>
    /\ UNCHANGED appVars

NextPdf ==
    \/ CreatePdfBegin
    \/ \E column \in {"left", "right"} :
          \/ SkipSection(column)
          \/ AddSectionTitle(column)
          \/ AddContent(column)
          \/ EndSection(column)
    \/ ResetRightColumn
    \/ PdfOutput

SpecPdf == InitPdf /\ [][NextPdf]_vars

----------------------------------------------------------------------------
(* create_pdf as one call, is_valid_email, ask_gemini *)

\* create_pdf(resume_text): the bytes of the document, or the exception the
\* contact block raises
create_pdf(text) ==
    LET secs == parse_resume_sections(sanitize_text(text))
        c == ContactBlock(secs) IN
    IF c.ok
    THEN [ok |-> TRUE,
          bytes |-> [kind |-> "bytes", data |-> <<[contact |-> c, sections |-> secs]>>]]
    ELSE [ok |-> FALSE, bytes |-> [kind |-> "None", data |-> <<>>]]

Digits == {"0", "1", "2", "3", "4", "5", "6", "7", "8", "9"}
\* \w and [\w\.-]
WordChars == UpperChars \cup LowerChars \cup Digits \cup {"_"}
LocalChars == WordChars \cup {".", "-"}

\* the format check with the test of the blank address only
ReceiverCheckNoFormat(receiver) ==
    IF Strip(receiver) = <<>> THEN "blank" ELSE "send"

\* re.match(r'^[\w\.-]+@[\w\.-]+\.\w+$', email) is not None; `$` also
\* matches before a newline that ends the string
is_valid_email(email) ==
    \E at, dot, end \in DOMAIN email :
        /\ end = Len(email) \/ (end = Len(email) - 1 /\ email[Len(email)] = NL)
        /\ 1 < at /\ at + 1 < dot /\ dot < end
        /\ email[at] = "@"
        /\ email[dot] = "."
        /\ \A k \in 1..(at - 1) : email[k] \in LocalChars
        /\ \A k \in (at + 1)..(dot - 1) : email[k] \in LocalChars
        /\ \A k \in (dot + 1)..end : email[k] \in WordChars

\* the if / elif / else of the send handler
ReceiverCheck(receiver) ==
    IF Strip(receiver) = <<>> THEN "blank"
    ELSE IF ~is_valid_email(receiver) THEN "invalid"
    ELSE "send"

\* one attempt more than the decorator allows
StopAfterAttemptPlusOne == 3 + 1

\* @retry(..., stop=stop_after_attempt(3))
StopAfterAttempt == 3

----------------------------------------------------------------------------
(* The Streamlit script: one run per widget event *)

MaxRuns == 3

NOT_AN_ADDRESS == <<"n", "o", "t", "-", "a", "n", "-", "a", "d", "d", "r", "e", "s", "s">>
VALID_ADDRESS == <<"a", "@", "b", ".", "c", "o">>

Receivers == { <<>>, <<" ">>, NOT_AN_ADDRESS, VALID_ADDRESS, <<" ", "a", "@", "b", ".", "c", "o">> }

JobDescriptions == { <<>>, <<" ", NL>>, <<"j", "d">> }

\* what the text-generation service may return
GoodText == Join(<<EDUCATION, <<"e", PIPE, "p">>>>)
NoContactText == CONTACT_INFORMATION
GeneratedTexts == { <<>>, GoodText, NoContactText }

\* the steps of the SMTP session, any of which may fail
TransportOutcomes == {"ok", "connect", "starttls", "login", "sendmail"}

InitApp ==
    /\ pc = "idle"
    /\ app \in {"app", "app3"}
    /\ runs = 0
    /\ submit_button = FALSE
    /\ send_email_button = FALSE
    /\ job_description = <<>>
    /\ receiver_email = <<>>
    /\ gemini_calls = <<>>
    /\ resume_text = Unbound
    /\ pdf_data = Unassigned
    /\ page = {}
    /\ transport_log = <<>>
    /\ line_idx = 1
    /\ sections = <<>>
    /\ current_section = None
    /\ current_content = <<>>
    /\ sec_idx = 0
    /\ content_idx = 0
    /\ current_y_left = 0
    /\ current_y_right = 0
    /\ page_no = 0
    /\ doc = <<>>

\* A widget event starts a run of the whole script: its names are unassigned
\* again and the page is rebuilt by what the run executes. The two buttons
\* return what Streamlit hands to this run; "Send Email" and the address can
\* only have been used if the last run put them on the page.
RunStarts(sb, seb, jd, re) ==
    /\ pc = "idle"
    /\ runs < MaxRuns
    /\ (seb \/ re # <<>>) => "email_section" \in page
    /\ runs' = runs + 1
    /\ submit_button' = sb
    /\ send_email_button' = seb
    /\ job_description' = jd
    /\ receiver_email' = re
    /\ gemini_calls' = <<>>
    /\ resume_text' = Unbound
    /\ pdf_data' = Unassigned
    /\ UNCHANGED <<app, transport_log, parseVars, pdfVars>>

\* `if submit_button:` is false: nothing below it runs
RunWithoutSubmit ==
    \E seb \in BOOLEAN, jd \in JobDescriptions, re \in Receivers :
        /\ RunStarts(FALSE, seb, jd, re)
        /\ page' = {}
        /\ pc' = "idle"

\* `if not job_description.strip():` the warning
SubmitBlankJobDescription ==
    \E seb \in BOOLEAN, jd \in JobDescriptions, re \in Receivers :
        /\ RunStarts(TRUE, seb, jd, re)
        /\ Strip(jd) = <<>>
        /\ page' = {"warning_job_description"}
        /\ pc' = "idle"

\* the else branch: the prompt is built, ask_gemini is entered
SubmitGenerate ==
    \E seb \in BOOLEAN, jd \in JobDescriptions, re \in Receivers :
        /\ RunStarts(TRUE, seb, jd, re)
        /\ Strip(jd) # <<>>
        /\ page' = {}
        /\ pc' = "ask_gemini"

\* the except branch of the submit handler
GenerationError ==
    /\ page' = page \cup {"error_generating"}
    /\ resume_text' = <<>>
    /\ pdf_data' = [kind |-> "None", data |-> <<>>]
    /\ pc' = "display"

\* one attempt of ask_gemini succeeds: response.text is returned
AskGeminiReturns ==
    /\ pc = "ask_gemini"
    /\ \E text \in GeneratedTexts :
        /\ gemini_calls' = Append(gemini_calls, "ok")
        /\ resume_text' = text
    /\ pc' = IF app = "app3" THEN "call_create_pdf" ELSE "display"
    /\ UNCHANGED <<app, runs, submit_button, send_email_button,
                   job_description, receiver_email, pdf_data, page,
                   transport_log, parseVars, pdfVars>>

\* one attempt of ask_gemini raises and the decorator tries again
AskGeminiRetries ==
    /\ pc = "ask_gemini"
    /\ Len(gemini_calls) + 1 < StopAfterAttempt
    /\ gemini_calls' = Append(gemini_calls, "raised")
    /\ UNCHANGED <<pc, resume_text, app, runs, submit_button,
                   send_email_button, job_description, receiver_email,
                   pdf_data, page, transport_log, parseVars, pdfVars>>

\* the last attempt raises: RetryError reaches the except branch
AskGeminiGivesUp ==
    /\ pc = "ask_gemini"
    /\ Len(gemini_calls) + 1 >= StopAfterAttempt
    /\ gemini_calls' = Append(gemini_calls, "raised")
    /\ GenerationError
    /\ UNCHANGED <<app, runs, submit_button, send_email_button,
                   job_description, receiver_email, transport_log,
                   parseVars, pdfVars>>

\* app3.py: pdf_data = create_pdf(resume_text)
CreatePdfReturns ==
    /\ pc = "call_create_pdf"
    /\ create_pdf(resume_text).ok
    /\ pdf_data' = create_pdf(resume_text).bytes
    /\ pc' = "display"
    /\ UNCHANGED <<resume_text, app, runs, submit_button, send_email_button,
                   job_description, receiver_email, gemini_calls, page,
                   transport_log, parseVars, pdfVars>>

\* app3.py: create_pdf raises: the except branch
CreatePdfRaises ==
    /\ pc = "call_create_pdf"
    /\ ~create_pdf(resume_text).ok
    /\ GenerationError
    /\ UNCHANGED <<app, runs, submit_button, send_email_button,
                   job_description, receiver_email, gemini_calls,
                   transport_log, parseVars, pdfVars>>

\* `if resume_text:` is false: the run ends
DisplayNothing ==
    /\ pc = "display"
    /\ resume_text = <<>>
    /\ pc' = "idle"
    /\ UNCHANGED <<resume_text, appVars, parseVars, pdfVars>>

\* the resume, the download button (app3.py) and the email section are shown
DisplayResume ==
    /\ pc = "display"
    /\ resume_text # <<>>
    /\ page' = page \cup {"resume", "email_section"}
                    \cup (IF app = "app3" THEN {"download_button"} ELSE {})
    /\ pc' = IF send_email_button THEN "send_email" ELSE "idle"
    /\ UNCHANGED <<resume_text, app, runs, submit_button, send_email_button,
                   job_description, receiver_email, gemini_calls, pdf_data,
                   transport_log, parseVars, pdfVars>>

\* `if send_email_button:` with a blank or malformed address: a warning
SendEmailRejected ==
    /\ pc = "send_email"
    /\ ReceiverCheck(receiver_email) # "send"
    /\ page' = page \cup {IF ReceiverCheck(receiver_email) = "blank"
                           THEN "warning_no_receiver"
                           ELSE "warning_invalid_email"}
    /\ pc' = "idle"
    /\ UNCHANGED <<resume_text, app, runs, submit_button, send_email_button,
                   job_description, receiver_email, gemini_calls, pdf_data,
                   transport_log, parseVars, pdfVars>>

\* send_email_with_attachment / send_email_plain_text: the SMTP session in
\* the try block; an exception of any step gives (False, str(e))
SendEmail ==
    /\ pc = "send_email"
    /\ ReceiverCheck(receiver_email) = "send"
    /\ \E outcome \in TransportOutcomes :
        /\ transport_log' = Append(transport_log,
              [run |-> runs, to |-> receiver_email, body |-> resume_text,
               attachment |-> IF app = "app3" THEN pdf_data
                              ELSE [kind |-> "None", data |-> <<>>],
               outcome |-> outcome])
        /\ page' = page \cup {IF outcome = "ok" THEN "success_sent"
                                                ELSE "error_send"}
    /\ pc' = "idle"
    /\ UNCHANGED <<resume_text, app, runs, submit_button, send_email_button,
                   job_description, receiver_email, gemini_calls, pdf_data,
                   parseVars, pdfVars>>

NextApp ==
    \/ RunWithoutSubmit
    \/ SubmitBlankJobDescription
    \/ SubmitGenerate
    \/ AskGeminiReturns
    \/ AskGeminiRetries
    \/ AskGeminiGivesUp
    \/ CreatePdfReturns
    \/ CreatePdfRaises
    \/ DisplayNothing
    \/ DisplayResume
    \/ SendEmailRejected
    \/ SendEmail

SpecApp == InitApp /\ [][NextApp]_vars

----------------------------------------------------------------------------
(* The input text read line by line, as the parser's contract describes it *)

InLines == Split(resume_text)
Trimmed(p) == Strip(InLines[p])
IsHeaderAt(p) ==
    Trimmed(p) # <<>> /\ (IsUpper(Trimmed(p)) \/ EndsWith(Trimmed(p), COLON))
IsContentAt(p) == Trimmed(p) # <<>> /\ ~IsHeaderAt(p)
NameAt(p) == RStripColon(Trimmed(p))
HeaderPositions == {p \in DOMAIN InLines : IsHeaderAt(p)}
SetMin(S) == CHOOSE x \in S : \A y \in S : x <= y
SetMax(S) == CHOOSE x \in S : \A y \in S : x >= y
\* the position of the header that follows p, or one past the last line
NextHeader(p) ==
    SetMin({q \in HeaderPositions : q > p} \cup {Len(InLines) + 1})
\* the trimmed content lines at positions lo..hi, in input order
RECURSIVE ContentBetween(_, _)
ContentBetween(lo, hi) ==
    IF lo > hi THEN <<>>
    ELSE (IF IsContentAt(lo) THEN <<Trimmed(lo)>> ELSE <<>>)
         \o ContentBetween(lo + 1, hi)
\* the content lines between the header at p and the next header
Block(p) == ContentBetween(p + 1, NextHeader(p) - 1)
PositionsOf(name) == {p \in HeaderPositions : NameAt(p) = name}

SeqToBag(s) ==
    [x \in {s[k] : k \in DOMAIN s} |-> Cardinality({k \in DOMAIN s : s[k] = x})]
RECURSIVE AllContents(_)
AllContents(d) ==
    IF d = <<>> THEN <<>> ELSE Head(d).val \o AllContents(Tail(d))

----------------------------------------------------------------------------
(* Claims about parse_resume_sections, under SpecParse *)

\* C1 (as stated): every section name of the result is mapped to the content
\* lines between that section's header line and the next header line, for
\* each header line that bears the name.
C1_EveryHeaderBlock ==
    pc = "parsed" =>
        \A k \in DOMAIN sections :
            \A p \in PositionsOf(sections[k].key) : sections[k].val = Block(p)

\* C1 (amended): every section name of the result is the name of a header
\* line and is mapped to exactly the trimmed, non-blank, non-header lines
\* between the LAST header line bearing that name and the next header line
\* (or the end of input), in input order.
C1_LastHeaderBlock ==
    pc = "parsed" =>
        \A k \in DOMAIN sections :
            /\ PositionsOf(sections[k].key) # {}
            /\ sections[k].val = Block(SetMax(PositionsOf(sections[k].key)))

\* C1 witness: two sections were parsed, each with content lines.
C1_Witness ==
    /\ pc = "parsed"
    /\ Len(sections) = 2
    /\ \A k \in DOMAIN sections : sections[k].val # <<>>

\* C2: content lines before the first header line are in no section (every
\* stored line is one of the content lines after the first header), and a
\* text without a header line parses to the empty map.
C2_PreambleDiscarded ==
    pc = "parsed" =>
        IF HeaderPositions = {} THEN sections = <<>>
        ELSE SeqToBag(AllContents(sections)) \sqsubseteq
             SeqToBag(ContentBetween(SetMin(HeaderPositions), Len(InLines)))

\* C2 witness: content precedes the first header and a later section is
\* stored with content of its own.
C2_Witness ==
    /\ pc = "parsed"
    /\ HeaderPositions # {}
    /\ ContentBetween(1, SetMin(HeaderPositions)) # <<>>
    /\ sections # <<>>
    /\ AllContents(sections) # <<>>

\* C3: at every point of the parse each input line read so far is held by at
\* most one content list (the stored sections and the open one together hold
\* no more copies of a line than the input read so far has), the keys are
\* distinct, and they are ordered by the first position of their header.
C3_OneSectionPerLine ==
    /\ SeqToBag(AllContents(sections)
                \o (IF pc = "parse" THEN current_content ELSE <<>>))
          \sqsubseteq SeqToBag(ContentBetween(1, line_idx - 1))
    /\ \A j, k \in DOMAIN sections :
          j < k =>
            /\ sections[j].key # sections[k].key
            /\ PositionsOf(sections[j].key) # {}
            /\ PositionsOf(sections[k].key) # {}
            /\ SetMin(PositionsOf(sections[j].key))
                 < SetMin(PositionsOf(sections[k].key))

\* C3 witness: a header name occurs twice and two sections are returned.
C3_Witness ==
    /\ pc = "parsed"
    /\ Len(sections) = 2
    /\ \E k \in DOMAIN sections :
          Cardinality(PositionsOf(sections[k].key)) > 1

\* C4: when the text has a header line, the returned map has a key for the
\* last header line (its trimmed text without the colon) and the key's
\* content is the list of content lines that follow it.
C4_LastSectionFlushed ==
    (pc = "parsed" /\ HeaderPositions # {}) =>
        LET p == SetMax(HeaderPositions) IN
        /\ HasKey(sections, NameAt(p))
        /\ DictGet(sections, NameAt(p)) = Block(p)

----------------------------------------------------------------------------
(* Claims about create_pdf, under SpecPdf *)

InSeq(x, list) == \E k \in DOMAIN list : list[k] = x
IndexIn(x, list) == CHOOSE k \in DOMAIN list : list[k] = x
SectionCells == {k \in DOMAIN doc : doc[k].kind \in {"title", "content"}}
TitleCells == {k \in DOMAIN doc : doc[k].kind = "title"}
ContentCells == {k \in DOMAIN doc : doc[k].kind = "content"}
LexLeq(a, b) == a.page < b.page \/ (a.page = b.page /\ a.y <= b.y)

C6_CursorsNeverDecrease ==
    [][/\ current_y_left' >= 0
       /\ current_y_right' >= 0
       /\ current_y_left' >= current_y_left
       /\ current_y_right' >= current_y_right]_vars

\* What the code does keep (C6 without "never decreases" across a page
\* break): each column cursor is non-negative and never decreases from one
\* write to the next unless the write starts a new page (FPDF's automatic
\* page break), where it restarts below the top margin; the page number
\* never decreases, and within a column no cell starts above the end of an
\* earlier cell of the same page.
C6_CursorsAdvanceWithinPage ==
    /\ [][/\ current_y_left' >= 0
          /\ current_y_right' >= 0
          /\ page_no' >= page_no
          /\ page_no' = page_no =>
                /\ current_y_left' >= current_y_left
                /\ current_y_right' >= current_y_right
          /\ (page_no >= 1 /\ page_no' > page_no) =>
                /\ current_y_left' >= margin
                /\ current_y_right' >= margin]_vars
    /\ [](\A j, k \in SectionCells :
            (j < k /\ doc[j].column = doc[k].column) =>
                LexLeq(doc[j].bottom, doc[k].top))

\* The pass is over, content was written to both columns and a page break
\* happened on the way.
C6_PageBreakReached ==
    /\ pc = "pdf_done"
    /\ page_no >= 2
    /\ \E k \in ContentCells : doc[k].column = "left"
    /\ \E k \in ContentCells : doc[k].column = "right"

\* the sections of the text as given to create_pdf, before sanitize_text
RawSections == parse_resume_sections(resume_text)

\* C7: a content line of a rendered section that begins with the bullet
\* glyph is written with is_bullet set, the glyph stripped from the text and
\* exactly one bullet marker prepended.
C7_BulletRendered ==
    pc = "pdf_done" =>
        \A s \in DOMAIN RawSections :
            LET name == RawSections[s].key
                lines == RawSections[s].val IN
            (InSeq(name, left_sections) \/ InSeq(name, right_sections)) =>
                \A i \in DOMAIN lines :
                    StartsWith(lines[i], BULLET) =>
                        \E k \in ContentCells :
                            /\ doc[k].section = name
                            /\ doc[k].idx = i
                            /\ doc[k].is_bullet
                            /\ doc[k].text =
                                  <<BULLET, " ">> \o Strip(Tail(lines[i]))

PlaceholderName == <<"N", "a", "m", "e">>
PlaceholderEmail == <<"e", "m", "a", "i", "l", "@", "e", "x", "a", "m", "p", "l", "e", ".", "c", "o", "m">>
PlaceholderPhone == <<"P", "h", "o", "n", "e">>

PipeAt(s) == {k \in DOMAIN s : s[k] = PIPE}

\* C11: for every section map produced by parse_resume_sections the contact
\* block extraction of create_pdf completes without error and the name
\* section is written from it: from the placeholder block when there is no
\* CONTACT INFORMATION section, otherwise the name from the section's first
\* line and email / phone from its second line split at '|' (phone empty
\* when there is no '|' or no second line).
C11_ContactBlockExtracted ==
    pc \in {"left", "right", "pdf_done", "pdf_raised"} =>
        /\ pc # "pdf_raised"
        /\ Len(doc) >= 2
        /\ doc[1].kind = "name"
        /\ doc[2].kind = "contact"
        /\ IF ~HasKey(sections, CONTACT_INFORMATION)
           THEN /\ doc[1].text = PlaceholderName
                /\ doc[2].text =
                      PlaceholderEmail \o <<" ", PIPE, " ">> \o PlaceholderPhone
           ELSE LET info == DictGet(sections, CONTACT_INFORMATION)
                    second == IF Len(info) > 1 THEN info[2] ELSE <<>>
                    cut == IF PipeAt(second) = {} THEN Len(second) + 1
                           ELSE SetMin(PipeAt(second))
                    email == Strip(SubSeq(second, 1, cut - 1))
                    phone == Strip(SubSeq(second, cut + 1, Len(second)))
                IN  /\ info # <<>>
                    /\ doc[1].text = info[1]
                    /\ doc[2].text = email \o <<" ", PIPE, " ">> \o phone

\* the part of C11 that the code keeps: whenever the extraction completes,
\* the values are the ones C11 describes
C11_ExtractedWhenCompleted ==
    pc \in {"left", "right", "pdf_done"} => C11_ContactBlockExtracted

\* a CONTACT INFORMATION section whose second line holds two '|': the
\* extraction has raised
C11_TwoPipes ==
    /\ pc = "pdf_raised"
    /\ HasKey(sections, CONTACT_INFORMATION)
    /\ Len(DictGet(sections, CONTACT_INFORMATION)) > 1
    /\ Cardinality(PipeAt(DictGet(sections, CONTACT_INFORMATION)[2])) = 2

\* a CONTACT INFORMATION section with no lines: the extraction has raised
C11_EmptyContactSection ==
    /\ pc = "pdf_raised"
    /\ HasKey(sections, CONTACT_INFORMATION)
    /\ DictGet(sections, CONTACT_INFORMATION) = <<>>

----------------------------------------------------------------------------
(* Claims about the script run, under SpecApp *)

SentInThisRun == {k \in DOMAIN transport_log : transport_log[k].run = runs}
AllRaised == \A k \in DOMAIN gemini_calls : gemini_calls[k] = "raised"

\* C8: the mail transport is never invoked with a receiver address that is
\* blank or fails is_valid_email ("not-an-address" among them); a run that
\* shows the validation warning has made no transport attempt.
C8_NoTransportForBadAddress ==
    /\ \A k \in DOMAIN transport_log :
          /\ Strip(transport_log[k].to) # <<>>
          /\ is_valid_email(transport_log[k].to)
          /\ transport_log[k].to # NOT_AN_ADDRESS
    /\ (page \cap {"warning_no_receiver", "warning_invalid_email"}) # {}
          => SentInThisRun = {}

\* C8 witness: "Send Email" was pressed with "not-an-address": the warning is
\* on the page and nothing was sent.
C8_Witness ==
    /\ pc = "idle"
    /\ send_email_button
    /\ receiver_email = NOT_AN_ADDRESS
    /\ "warning_invalid_email" \in page
    /\ SentInThisRun = {}

\* C9: in one run the text-generation service is called at most 3 times and
\* never after a call that succeeded; when all 3 calls raised, the error is
\* shown and no resume, no download button, no email section and no PDF
\* exist and nothing is sent.
C9_ThreeAttemptsThenAbort ==
    /\ Len(gemini_calls) <= 3
    /\ \A k \in DOMAIN gemini_calls :
          gemini_calls[k] = "ok" => k = Len(gemini_calls)
    /\ (Len(gemini_calls) = 3 /\ AllRaised) =>
          /\ pc \in {"display", "idle"}
          /\ "error_generating" \in page
          /\ page \cap {"resume", "download_button", "email_section"} = {}
          /\ resume_text = <<>>
          /\ pdf_data.kind = "None"
          /\ SentInThisRun = {}

\* C9 witness: a run ended after three calls that all raised.
C9_Witness ==
    /\ pc = "idle"
    /\ Len(gemini_calls) = 3
    /\ AllRaised
    /\ "error_generating" \in page

\* C10: a failed transport is reported and leaves the resume text and the
\* PDF bytes unchanged (first conjunct), and they remain available for a
\* retry: an interaction that is not a new submission keeps them, and a
\* press of "Send Email" reaches the send handler again (second conjunct).
C10_FailureLeavesResumeAvailable ==
    [][/\ (pc = "send_email" /\ Len(transport_log') > Len(transport_log)
              /\ transport_log'[Len(transport_log')].outcome # "ok") =>
              /\ "error_send" \in page'
              /\ "resume" \in page'
              /\ resume_text' = resume_text
              /\ pdf_data' = pdf_data
       /\ (pc = "idle" /\ "error_send" \in page /\ runs' = runs + 1
              /\ ~submit_button') =>
              /\ resume_text' = resume_text
              /\ pdf_data' = pdf_data
              /\ "resume" \in page'
              /\ send_email_button' => pc' = "send_email"]_vars

\* The part of C10 the code keeps: the send function returns instead of
\* raising, the failure is shown, and the step changes neither the resume
\* text nor the PDF bytes, which stay on the page until the next run.
C10_FailureWithinRun ==
    [][(pc = "send_email" /\ Len(transport_log') > Len(transport_log)
           /\ transport_log'[Len(transport_log')].outcome # "ok") =>
           /\ pc' = "idle"
           /\ "error_send" \in page'
           /\ "resume" \in page'
           /\ resume_text' = resume_text
           /\ pdf_data' = pdf_data]_vars

====
